---- MODULE Spec2Model ----
(***************************************************************************)
(* Credential lifecycle of ai_ml_notebooks: the two OAuth helpers          *)
(*   get_google_api_client      (src/src/my_google_api_helpers.py)         *)
(*   get_authenticated_youtube  (src/src/youtube_auth.py)                  *)
(* run as concurrent calls over one shared token directory, together with  *)
(* the cache-key computation (normalize_account_id + file name), and the   *)
(* logger handling of run_pip_install_summary                              *)
(* (src/src/my_pip_installer_logger.py).                                   *)
(*                                                                         *)
(* Strings are sequences of one-character strings, so that str.replace and *)
(* the f-string of the token file name are computed, not assumed.          *)
(***************************************************************************)
EXTENDS Naturals, Sequences, FiniteSets, TLC

VARIABLES
    now,          \* wall clock (utcnow), in ticks
    calls,        \* number of calls started so far
    secret,       \* TRUE iff the client_secret.json file exists
    tokenDir,     \* TRUE iff the directory "tokens" exists
    files,        \* the token directory: file name -> [data, size, mode]
    pc,           \* per caller: the source line the call is at
    call,         \* per caller: the arguments of the call
    loc,          \* per caller: the call's local variables
    eff,          \* per caller: the side effects the call has performed
    res,          \* per caller: how the call ended and what it returned
    users,        \* the accounts of config/google_users.yaml
    kin,          \* cache-key check: two (account, api, profile) triples
    kout,         \* cache-key check: their token file names
    nin,          \* normalization check: an account string
    nout,         \* normalization check: what the two copies make of it
    handlers,     \* pip_logger.handlers: the buffers its handlers write to
    buffers,      \* every StringIO buffer created so far: its lines
    pip           \* run_pip_install_summary: the call in progress, the last return

vars == <<calls, now, secret, tokenDir, files, users,
          pc, call, loc, eff, res, kin, kout, nin, nout, handlers, buffers, pip>>

lifecycleVars == <<calls, now, secret, tokenDir, files, users,
                   pc, call, loc, eff, res>>

keyVars == <<kin, kout>>

normVars == <<nin, nout>>

pipVars == <<handlers, buffers, pip>>

\* what the credential lifecycle leaves alone
otherVars == <<users, keyVars, normVars, pipVars>>

-----------------------------------------------------------------------------
(* Bounds *)

MaxTime == 1
MaxCalls == 2
TokenLifetime == 1
MaxNameLen == 2

\* the slots for calls in progress: two calls can overlap
Procs == {1, 2}

\* Python's None, for a credentials variable
None == [kind |-> "None"]

-----------------------------------------------------------------------------
(* Strings *)

\* str.replace(old, new) for a one-character old
RECURSIVE Replace(_, _, _)
Replace(s, old, new) ==
    IF s = <<>> THEN <<>>
    ELSE (IF Head(s) = old THEN new ELSE <<Head(s)>>) \o Replace(Tail(s), old, new)

MutNormNoDot(account_email) ==
    Replace(account_email, "@", <<"_", "a", "t", "_">>)

normalize_account_id(account_email) ==
    Replace(Replace(account_email, "@", <<"_", "a", "t", "_">>),
            ".", <<"_", "d", "o", "t", "_">>)

\* f"{norm}__{api_name}__{scope_profile}.json"
TokenFileG(account_email, api_name, scope_profile) ==
    normalize_account_id(account_email) \o <<"_", "_">> \o api_name
        \o <<"_", "_">> \o scope_profile \o <<".json">>

\* the copy of normalize_account_id in youtube_auth.py
normalize_account_id_yt(account) ==
    Replace(Replace(account, "@", <<"_", "a", "t", "_">>),
            ".", <<"_", "d", "o", "t", "_">>)

\* f"{norm}.json"
TokenFileY(account) ==
    normalize_account_id_yt(account) \o <<".json">>

-----------------------------------------------------------------------------
(* Configuration and inputs *)

ScopeRO == "youtube.readonly"
ScopeSSL == "youtube.force-ssl"

\* SCOPES of youtube_auth.py
SCOPES == {ScopeRO}

ApiYT == <<"y", "t">>
ApiGM == <<"g", "m">>
ProfRead == <<"r">>
ProfWrite == <<"w">>

\* google_api_scopes.yaml, as load_scope_profiles returns it:
\* api -> profile -> scopes
ScopeConfig == (ApiYT :> (ProfRead :> {ScopeRO, ScopeSSL}))

\* account strings a caller may pass: users is the set in use
UserAB == <<"a", "@", "b">>
UserAatB == <<"a", "_", "a", "t", "_", "b">>
Accounts == {UserAB, UserAatB}
ApiNames == {ApiYT, ApiGM}
ScopeProfiles == {ProfRead, ProfWrite}
\* the scopes argument of get_authenticated_youtube; {} is None (falsy)
ScopeArgs == {{}, {ScopeRO, ScopeSSL}}

-----------------------------------------------------------------------------
(* Credentials (google.oauth2.credentials.Credentials) and token files *)

\* 0o600, the mode of os.chmod(token_file, 0o600)
Mode0600 == 384

RECURSIVE BitAnd(_, _)
BitAnd(a, b) ==
    IF a = 0 \/ b = 0 THEN 0
    ELSE 2 * BitAnd(a \div 2, b \div 2) + (IF a % 2 = 1 /\ b % 2 = 1 THEN 1 ELSE 0)

\* mode of a file created by open(path, "w"): 0o666 & ~umask, under the
\* usual umask 0o022 (which gives 0o644)
CreateMode == 438 - BitAnd(438, 18)

\* creds.expired: False without an expiry (0 stands for None), else
\* utcnow() >= expiry
expired(creds) == creds.expiry # 0 /\ now >= creds.expiry

\* creds.valid: token is not None and not expired (scopes play no part)
valid(creds) == creds.token # 0 /\ ~expired(creds)

\* creds.to_json(): the serialized record
to_json(creds) ==
    [kind |-> "json", token |-> creds.token, refresh_token |-> creds.refresh_token,
     expiry |-> creds.expiry, scopes |-> creds.scopes]

\* length of the serialized record (absent fields are left out of the JSON)
JsonSize(json) ==
    (IF json.token # 0 THEN 1 ELSE 0) + (IF json.refresh_token THEN 1 ELSE 0)
        + Cardinality(json.scopes)

\* file content: a serialized record, nothing yet (truncated), or the head
\* of one record followed by the tail of another
Empty == [kind |-> "empty"]
Torn == [kind |-> "torn"]
Malformed(data) == data.kind # "json"

\* Credentials.from_authorized_user_file(token_file, scopes): the scopes
\* argument replaces the scopes of the file; malformed content raises
from_authorized_user_file(data, scopes) ==
    IF Malformed(data) THEN [kind |-> "ValueError"]
    ELSE [kind |-> "creds", token |-> data.token, refresh_token |-> data.refresh_token,
          expiry |-> data.expiry, scopes |-> scopes]

\* the access tokens still held somewhere: in a file, or by a call
TokensOf(c) == IF "token" \in DOMAIN c THEN {c.token} ELSE {}
LiveTokens ==
    UNION ({TokensOf(files[f].data) : f \in DOMAIN files}
           \cup {TokensOf(loc[p].creds) : p \in Procs}
           \cup {TokensOf(eff[p].seen) : p \in Procs}
           \cup {TokensOf(eff[p].before) : p \in Procs})

\* the provider never issues an access token twice: the next token differs
\* from every token still held
FreshToken == CHOOSE t \in 1..(Cardinality(LiveTokens) + 1) : t \notin LiveTokens

\* what the consent flow yields: a fresh access token, valid for
\* TokenLifetime, and a refresh token (an installed-app flow asks for
\* offline access)
Issued(scopes) ==
    [kind |-> "creds", token |-> FreshToken, refresh_token |-> TRUE,
     expiry |-> now + TokenLifetime, scopes |-> scopes]

\* what a successful creds.refresh() leaves in creds
Refreshed(creds) ==
    [creds EXCEPT !.token = FreshToken, !.expiry = now + TokenLifetime]

exists(token_file) == token_file \in DOMAIN files

\* open(token_file, "w"): create with the umask's mode, or truncate in place
OpenW(token_file) ==
    IF exists(token_file)
    THEN [files EXCEPT ![token_file] = [data |-> Empty, size |-> 0, mode |-> @.mode]]
    ELSE (token_file :> [data |-> Empty, size |-> 0, mode |-> CreateMode]) @@ files

\* token.write(json) flushed at close: the bytes go to offset 0 of the file
\* as it is then; a longer content written meanwhile keeps its tail
WriteAt0(token_file, json) ==
    LET f == files[token_file] IN
    IF JsonSize(json) >= f.size
    THEN [files EXCEPT ![token_file] = [data |-> json, size |-> JsonSize(json), mode |-> f.mode]]
    ELSE [files EXCEPT ![token_file] = [data |-> Torn, size |-> f.size, mode |-> f.mode]]

\* os.chmod(token_file, 0o600)
Chmod(token_file) == [files EXCEPT ![token_file].mode = Mode0600]

-----------------------------------------------------------------------------
(* Scope resolution *)

MutScopesSilentEmpty(api, profile, scope_config) ==
    IF api \in DOMAIN scope_config /\ profile \in DOMAIN scope_config[api]
    THEN [raised |-> FALSE, value |-> scope_config[api][profile]]
    ELSE [raised |-> FALSE, value |-> {}]

\* get_scopes_for: scope_config[api][profile], KeyError -> ValueError
get_scopes_for(api, profile, scope_config) ==
    IF api \in DOMAIN scope_config /\ profile \in DOMAIN scope_config[api]
    THEN [raised |-> FALSE, value |-> scope_config[api][profile]]
    ELSE [raised |-> TRUE, value |-> {}]

-----------------------------------------------------------------------------
(* Per-call state *)

NoCall == [fn |-> "", account |-> <<>>, api_name |-> <<>>,
           scope_profile |-> <<>>, scopes |-> {}]

NoLoc == [scopes |-> {}, token_file |-> <<>>, creds |-> None]

\* side effects of one call: network calls (refreshes, consents), file-system
\* writes (saves, mkdirs, chmods), store reads (loads); seen is the file
\* content the load found ("unread" before it, "nofile" if there was none);
\* before is the content under the call's key when the call began; alone
\* says that no other call was in progress at any time during this one
NoEff == [refreshes |-> 0, consents |-> 0, saves |-> 0, mkdirs |-> 0,
          chmods |-> 0, loads |-> 0, refreshFailed |-> FALSE,
          seen |-> [kind |-> "unread"], before |-> [kind |-> "nofile"],
          alone |-> TRUE]

Content(token_file) ==
    IF exists(token_file) THEN files[token_file].data ELSE [kind |-> "nofile"]

Began(token_file) == [NoEff EXCEPT !.before = Content(token_file)]

InCall(p) == pc[p] \notin {"idle", "done"}

\* the effects when a call begins in slot p: its own start afresh, and it
\* overlaps every call in progress
Begun(p, token_file) ==
    [q \in Procs |->
        IF q = p
        THEN [Began(token_file) EXCEPT !.alone = \A r \in Procs \ {p} : ~InCall(r)]
        ELSE IF InCall(q) THEN [eff[q] EXCEPT !.alone = FALSE] ELSE eff[q]]

NoRes == [outcome |-> "none", ret |-> None]

\* a new call takes the first slot that is free (no call in it, or one that
\* has ended)
FreeSlot(p) ==
    /\ pc[p] \in {"idle", "done"}
    /\ \A q \in Procs : q < p => pc[q] \notin {"idle", "done"}

\* the call raises: it ends with the exception as its outcome
Raise(p, exc) ==
    /\ pc' = [pc EXCEPT ![p] = "done"]
    /\ res' = [res EXCEPT ![p] = [outcome |-> exc, ret |-> None]]

\* the call returns build(..., credentials=creds)
Return(p, creds) ==
    /\ pc' = [pc EXCEPT ![p] = "done"]
    /\ res' = [res EXCEPT ![p] = [outcome |-> "ok", ret |-> creds]]

Goto(p, label) == pc' = [pc EXCEPT ![p] = label] /\ UNCHANGED res

\* the effects of mkdir(exist_ok=True) and of looking the token file up
Looked(p, data) ==
    [eff EXCEPT ![p].mkdirs = IF tokenDir THEN @ ELSE @ + 1,
                ![p].loads = @ + 1,
                ![p].seen = data]

-----------------------------------------------------------------------------
(* get_google_api_client, my_google_api_helpers.py lines 77-118 *)

\* the call, and lines 83-84: load the scope table, resolve the scopes
CallG(p) ==
    \E account_email \in users, api_name \in ApiNames, scope_profile \in ScopeProfiles :
        LET r == get_scopes_for(api_name, scope_profile, ScopeConfig) IN
        /\ FreeSlot(p)
        /\ calls < MaxCalls
        /\ calls' = calls + 1
        /\ call' = [call EXCEPT ![p] = [fn |-> "G", account |-> account_email,
                                        api_name |-> api_name,
                                        scope_profile |-> scope_profile, scopes |-> {}]]
        /\ loc' = [loc EXCEPT ![p] = [NoLoc EXCEPT !.scopes = r.value]]
        /\ eff' = Begun(p, TokenFileG(account_email, api_name, scope_profile))
        /\ IF r.raised THEN Raise(p, "ValueError") ELSE Goto(p, "g87")
        /\ UNCHANGED <<now, secret, tokenDir, files>>
        /\ UNCHANGED otherVars

\* lines 87-100: token_dir.mkdir(exist_ok=True); load the token if the file
\* exists (a load error propagates); valid -> return, expired with a refresh
\* token -> refresh, otherwise the consent branch
G87(p) ==
    LET token_file == TokenFileG(call[p].account, call[p].api_name, call[p].scope_profile)
        data == Content(token_file)
        creds == IF exists(token_file)
                 THEN from_authorized_user_file(data, loc[p].scopes)
                 ELSE None
    IN
    /\ pc[p] = "g87"
    /\ tokenDir' = TRUE
    /\ eff' = Looked(p, data)
    /\ IF creds.kind = "ValueError"
       THEN /\ Raise(p, "ValueError")
            /\ loc' = [loc EXCEPT ![p].token_file = token_file]
       ELSE /\ loc' = [loc EXCEPT ![p].token_file = token_file, ![p].creds = creds]
            /\ IF creds # None /\ valid(creds) THEN Return(p, creds)
               ELSE IF creds # None /\ expired(creds) /\ creds.refresh_token
                    THEN Goto(p, "g101")
                    ELSE Goto(p, "g105")
    /\ UNCHANGED <<calls, now, secret, files, call>>
    /\ UNCHANGED otherVars

\* a refresh whose failure discards the stored record before it is raised,
\* which the code does not do
MutG101DropOnFail(p) ==
    /\ pc[p] = "g101"
    /\ \/ /\ eff' = [eff EXCEPT ![p].refreshes = @ + 1]
          /\ loc' = [loc EXCEPT ![p].creds = Refreshed(@)]
          /\ Goto(p, "g114")
          /\ UNCHANGED files
       \/ /\ eff' = [eff EXCEPT ![p].refreshes = @ + 1, ![p].refreshFailed = TRUE]
          /\ files' = OpenW(loc[p].token_file)
          /\ Raise(p, "RefreshError")
          /\ UNCHANGED loc
    /\ UNCHANGED <<calls, now, secret, tokenDir, call>>
    /\ UNCHANGED otherVars

\* line 101: creds.refresh(Request()); a RefreshError is not caught
G101(p) ==
    /\ pc[p] = "g101"
    /\ \/ /\ eff' = [eff EXCEPT ![p].refreshes = @ + 1]
          /\ loc' = [loc EXCEPT ![p].creds = Refreshed(@)]
          /\ Goto(p, "g114")
       \/ /\ eff' = [eff EXCEPT ![p].refreshes = @ + 1, ![p].refreshFailed = TRUE]
          /\ Raise(p, "RefreshError")
          /\ UNCHANGED loc
    /\ UNCHANGED <<calls, now, secret, tokenDir, files, call>>
    /\ UNCHANGED otherVars

\* lines 105-111: the client secret file must exist; then the consent flow
\* (both functions take the path as client_secret_file; the callers here pass
\* the same file to both)
\* (InstalledAppFlow.from_client_secrets_file, run_local_server)
G105(p) ==
    /\ pc[p] = "g105"
    /\ IF ~secret
       THEN Raise(p, "FileNotFoundError") /\ UNCHANGED <<loc, eff>>
       ELSE /\ eff' = [eff EXCEPT ![p].consents = @ + 1]
            /\ \/ /\ loc' = [loc EXCEPT ![p].creds = Issued(loc[p].scopes)]
                  /\ Goto(p, "g114")
               \/ /\ Raise(p, "ConsentFlowFailed")
                  /\ UNCHANGED loc
    /\ UNCHANGED <<calls, now, secret, tokenDir, files, call>>
    /\ UNCHANGED otherVars

\* line 114: open(token_file, "w")
G114(p) ==
    /\ pc[p] = "g114"
    /\ files' = OpenW(loc[p].token_file)
    /\ eff' = [eff EXCEPT ![p].saves = @ + 1]
    /\ Goto(p, "g115")
    /\ UNCHANGED <<calls, now, secret, tokenDir, call, loc>>
    /\ UNCHANGED otherVars

\* lines 115-118: token.write(creds.to_json()), flushed when the with block
\* closes; return build(api_name, "v3", credentials=creds)
G115(p) ==
    /\ pc[p] = "g115"
    /\ files' = WriteAt0(loc[p].token_file, to_json(loc[p].creds))
    /\ Return(p, loc[p].creds)
    /\ UNCHANGED <<calls, now, secret, tokenDir, call, loc, eff>>
    /\ UNCHANGED otherVars

-----------------------------------------------------------------------------
(* get_authenticated_youtube, youtube_auth.py lines 19-61 *)

\* the call, and lines 23-28: scopes = scopes or SCOPES; the client secret
\* file must exist
CallY(p) ==
    \E account \in users, scopes \in ScopeArgs :
        /\ FreeSlot(p)
        /\ calls < MaxCalls
        /\ calls' = calls + 1
        /\ call' = [call EXCEPT ![p] = [fn |-> "Y", account |-> account,
                                        api_name |-> <<>>, scope_profile |-> <<>>,
                                        scopes |-> scopes]]
        /\ loc' = [loc EXCEPT ![p] =
                      [NoLoc EXCEPT !.scopes = IF scopes = {} THEN SCOPES ELSE scopes]]
        /\ eff' = Begun(p, TokenFileY(account))
        /\ IF ~secret THEN Raise(p, "FileNotFoundError") ELSE Goto(p, "y30")
        /\ UNCHANGED <<now, secret, tokenDir, files>>
        /\ UNCHANGED otherVars

\* lines 30-44: os.makedirs("tokens", exist_ok=True); load the token if the
\* file exists (a load error is logged, creds = None); valid -> return,
\* expired with a refresh token -> refresh, otherwise the consent flow
Y30(p) ==
    LET token_file == TokenFileY(call[p].account)
        data == Content(token_file)
        loaded == IF exists(token_file)
                  THEN from_authorized_user_file(data, loc[p].scopes)
                  ELSE None
        creds == IF loaded.kind = "ValueError" THEN None ELSE loaded
    IN
    /\ pc[p] = "y30"
    /\ tokenDir' = TRUE
    /\ eff' = Looked(p, data)
    /\ loc' = [loc EXCEPT ![p].token_file = token_file, ![p].creds = creds]
    /\ IF creds # None /\ valid(creds) THEN Return(p, creds)
       ELSE IF creds # None /\ expired(creds) /\ creds.refresh_token
            THEN Goto(p, "y46")
            ELSE Goto(p, "y54")
    /\ UNCHANGED <<calls, now, secret, files, call>>
    /\ UNCHANGED otherVars

\* a refresh that is tried again when it fails, which the code does not do
MutY46Retry(p) ==
    /\ pc[p] = "y46"
    /\ \/ /\ eff' = [eff EXCEPT ![p].refreshes = @ + 1]
          /\ loc' = [loc EXCEPT ![p].creds = Refreshed(@)]
          /\ Goto(p, "y57")
       \/ /\ eff' = [eff EXCEPT ![p].refreshes = @ + 1, ![p].refreshFailed = TRUE]
          /\ UNCHANGED <<pc, loc, res>>
    /\ UNCHANGED <<calls, now, secret, tokenDir, files, call>>
    /\ UNCHANGED otherVars

\* lines 45-52: creds.refresh(Request()); a failure is logged and creds = None,
\* which leads to the consent flow; refreshed credentials are valid
Y46(p) ==
    /\ pc[p] = "y46"
    /\ \/ /\ eff' = [eff EXCEPT ![p].refreshes = @ + 1]
          /\ loc' = [loc EXCEPT ![p].creds = Refreshed(@)]
          /\ Goto(p, "y57")
       \/ /\ eff' = [eff EXCEPT ![p].refreshes = @ + 1, ![p].refreshFailed = TRUE]
          /\ loc' = [loc EXCEPT ![p].creds = None]
          /\ Goto(p, "y54")
    /\ UNCHANGED <<calls, now, secret, tokenDir, files, call>>
    /\ UNCHANGED otherVars

\* lines 53-55: InstalledAppFlow.from_client_secrets_file, then run_console
\* or run_local_server
Y54(p) ==
    /\ pc[p] = "y54"
    /\ IF ~secret
       THEN Raise(p, "FileNotFoundError") /\ UNCHANGED <<loc, eff>>
       ELSE /\ eff' = [eff EXCEPT ![p].consents = @ + 1]
            /\ \/ /\ loc' = [loc EXCEPT ![p].creds = Issued(loc[p].scopes)]
                  /\ Goto(p, "y57")
               \/ /\ Raise(p, "ConsentFlowFailed")
                  /\ UNCHANGED loc
    /\ UNCHANGED <<calls, now, secret, tokenDir, files, call>>
    /\ UNCHANGED otherVars

\* line 57: open(token_file, "w")
Y57(p) ==
    /\ pc[p] = "y57"
    /\ files' = OpenW(loc[p].token_file)
    /\ eff' = [eff EXCEPT ![p].saves = @ + 1]
    /\ Goto(p, "y58")
    /\ UNCHANGED <<calls, now, secret, tokenDir, call, loc>>
    /\ UNCHANGED otherVars

\* line 58: token.write(creds.to_json()), flushed when the with block closes
Y58(p) ==
    /\ pc[p] = "y58"
    /\ files' = WriteAt0(loc[p].token_file, to_json(loc[p].creds))
    /\ Goto(p, "y59")
    /\ UNCHANGED <<calls, now, secret, tokenDir, call, loc, eff>>
    /\ UNCHANGED otherVars

\* lines 59-61: os.chmod(token_file, 0o600); return build("youtube", "v3", ...)
Y59(p) ==
    /\ pc[p] = "y59"
    /\ files' = Chmod(loc[p].token_file)
    /\ eff' = [eff EXCEPT ![p].chmods = @ + 1]
    /\ Return(p, loc[p].creds)
    /\ UNCHANGED <<calls, now, secret, tokenDir, call, loc>>
    /\ UNCHANGED otherVars

-----------------------------------------------------------------------------
(* The callers' processes and the environment *)

Reset(p) ==
    /\ pc' = [pc EXCEPT ![p] = "idle"]
    /\ call' = [call EXCEPT ![p] = NoCall]
    /\ loc' = [loc EXCEPT ![p] = NoLoc]
    /\ eff' = [eff EXCEPT ![p] = NoEff]
    /\ res' = [res EXCEPT ![p] = NoRes]

\* the calling process dies (kill, power loss) wherever it is; nothing of
\* the call is left but what it did to the files
Crash(p) ==
    /\ InCall(p)
    /\ Reset(p)
    /\ UNCHANGED <<calls, now, secret, tokenDir, files>>
    /\ UNCHANGED otherVars

\* time passes
Tick ==
    /\ now < MaxTime
    /\ now' = now + 1
    /\ UNCHANGED <<calls, secret, tokenDir, files, pc, call, loc, eff, res>>
    /\ UNCHANGED otherVars

\* the operator installs or removes client_secret.json
SetSecret ==
    /\ secret' = ~secret
    /\ UNCHANGED <<calls, now, tokenDir, files, pc, call, loc, eff, res>>
    /\ UNCHANGED otherVars

\* no call in any slot
NoCalls ==
    /\ calls = 0
    /\ pc = [p \in Procs |-> "idle"]
    /\ call = [p \in Procs |-> NoCall]
    /\ loc = [p \in Procs |-> NoLoc]
    /\ eff = [p \in Procs |-> NoEff]
    /\ res = [p \in Procs |-> NoRes]

\* the parts of the state that the credential lifecycle does not use
NoKeys == kin = <<>> /\ kout = <<>>
NoNorm == nin = <<>> /\ nout = <<>>
PipIdle == [pc |-> "idle", n |-> 0, log_buffer |-> 0, logged |-> 0,
            ret |-> <<>>, retn |-> 0]
NoPip == handlers = <<>> /\ buffers = <<>> /\ pip = PipIdle

\* a fresh working directory, one configured account
Init ==
    /\ now = 0
    /\ secret \in BOOLEAN
    /\ tokenDir = FALSE
    /\ files = <<>>
    /\ users = {UserAB}
    /\ NoCalls
    /\ NoKeys
    /\ NoNorm
    /\ NoPip

Next ==
    \/ \E p \in Procs : CallG(p)
    \/ \E p \in Procs : G87(p)
    \/ \E p \in Procs : G101(p)
    \/ \E p \in Procs : G105(p)
    \/ \E p \in Procs : G114(p)
    \/ \E p \in Procs : G115(p)
    \/ \E p \in Procs : CallY(p)
    \/ \E p \in Procs : Y30(p)
    \/ \E p \in Procs : Y46(p)
    \/ \E p \in Procs : Y54(p)
    \/ \E p \in Procs : Y57(p)
    \/ \E p \in Procs : Y58(p)
    \/ \E p \in Procs : Y59(p)
    \/ \E p \in Procs : Crash(p)
    \/ Tick
    \/ SetSecret

Spec == Init /\ [][Next]_vars

-----------------------------------------------------------------------------
(* The same calls in a directory an operator has prepared: two accounts in  *)
(* use, and possibly an authorized-user file (client id and refresh token,  *)
(* no access token) put in place of a token file                            *)

\* the content of an authorized-user file, as from_authorized_user_file
\* reads it: token None, expiry None
AuthorizedUser ==
    [kind |-> "json", token |-> 0, refresh_token |-> TRUE, expiry |-> 0, scopes |-> {}]

Placed(token_file) ==
    token_file :> [data |-> AuthorizedUser, size |-> JsonSize(AuthorizedUser),
                   mode |-> Mode0600]

InitOps ==
    /\ now = 0
    /\ secret \in BOOLEAN
    /\ \/ tokenDir = FALSE /\ files = <<>>
       \/ tokenDir = TRUE /\ files = Placed(TokenFileY(UserAB))
       \/ tokenDir = TRUE /\ files = Placed(TokenFileG(UserAB, ApiYT, ProfRead))
    /\ users = Accounts
    /\ NoCalls
    /\ NoKeys
    /\ NoNorm
    /\ NoPip

SpecOps == InitOps /\ [][Next]_vars

-----------------------------------------------------------------------------
(* The cache key on its own: two (account, api, profile) triples and the    *)
(* token file names get_google_api_client computes for them                 *)

RECURSIVE StringsOver(_, _)
StringsOver(alphabet, n) ==
    IF n = 0 THEN {<<>>}
    ELSE LET shorter == StringsOver(alphabet, n - 1) IN
         shorter \cup {Append(s, c) : s \in shorter, c \in alphabet}

KeyAccounts == StringsOver({"a", "_", "@"}, MaxNameLen) \ {<<>>}
KeyNames == StringsOver({"a", "_"}, MaxNameLen) \ {<<>>}
KeyTriples == KeyAccounts \X KeyNames \X KeyNames

\* lines 87 and 90 for both triples
ComputeKeys ==
    /\ kout = <<>>
    /\ kout' = <<TokenFileG(kin[1][1], kin[1][2], kin[1][3]),
                 TokenFileG(kin[2][1], kin[2][2], kin[2][3])>>
    /\ UNCHANGED <<kin, normVars, pipVars>>

\* the credential lifecycle at rest
NoLifecycle ==
    /\ now = 0
    /\ secret = FALSE
    /\ tokenDir = FALSE
    /\ files = <<>>
    /\ users = {UserAB}
    /\ NoCalls

InitKey ==
    /\ NoLifecycle
    /\ kin \in KeyTriples \X KeyTriples
    /\ kout = <<>>
    /\ NoNorm
    /\ NoPip

NextKey == ComputeKeys /\ UNCHANGED lifecycleVars

SpecKey == InitKey /\ [][NextKey]_vars

-----------------------------------------------------------------------------
(* normalize_account_id on its own: one account string, given to both       *)
(* copies of the function, and to the first copy twice over                 *)

MaxIdLen == 3

NormInputs == StringsOver({"a", "@", ".", "_", "/", "\\"}, MaxIdLen)

\* norm = normalize_account_id(account), in both files, and the
\* normalization of an already normalized string
Normalize ==
    /\ nout = <<>>
    /\ nout' = [g |-> normalize_account_id(nin),
                y |-> normalize_account_id_yt(nin),
                gg |-> normalize_account_id(normalize_account_id(nin))]
    /\ UNCHANGED <<nin, keyVars, pipVars>>

InitNorm ==
    /\ NoLifecycle
    /\ NoKeys
    /\ nin \in NormInputs
    /\ nout = <<>>
    /\ NoPip

NextNorm == Normalize /\ UNCHANGED lifecycleVars

SpecNorm == InitNorm /\ [][NextNorm]_vars

-----------------------------------------------------------------------------
(* run_pip_install_summary, my_pip_installer_logger.py lines 7-68: calls    *)
(* one after another in one interpreter, which share the logger             *)
(* "pip_logger"; a buffer is named by its index in buffers                  *)

MaxPipCalls == 3
MaxLines == 2

\* lines 19-20: removeHandler for every handler of a copy of the list
RECURSIVE RemoveHandlers(_, _)
RemoveHandlers(hs, copy) ==
    IF copy = <<>> THEN hs
    ELSE RemoveHandlers(SelectSeq(hs, LAMBDA h : h # Head(copy)), Tail(copy))

\* a call that leaves the handlers of earlier calls on the logger
MutPipKeepHandlers ==
    /\ pip.pc = "idle"
    /\ pip.n < MaxPipCalls
    /\ buffers' = Append(buffers, <<>>)
    /\ handlers' = Append(handlers, Len(buffers) + 1)
    /\ pip' = [pip EXCEPT !.pc = "running", !.n = @ + 1,
                          !.log_buffer = Len(buffers) + 1, !.logged = 0]
    /\ UNCHANGED <<lifecycleVars, keyVars, normVars>>

\* lines 11-27: a new StringIO buffer; the old handlers are removed from
\* the logger and a handler that writes to the new buffer is added
PipCall ==
    /\ pip.pc = "idle"
    /\ pip.n < MaxPipCalls
    /\ buffers' = Append(buffers, <<>>)
    /\ handlers' = Append(RemoveHandlers(handlers, handlers), Len(buffers) + 1)
    /\ pip' = [pip EXCEPT !.pc = "running", !.n = @ + 1,
                          !.log_buffer = Len(buffers) + 1, !.logged = 0]
    /\ UNCHANGED <<lifecycleVars, keyVars, normVars>>

\* lines 30 and 44: pip_logger.info(...): every handler of the logger
\* writes the line to its buffer
PipLog ==
    /\ pip.pc = "running"
    /\ pip.logged < MaxLines
    /\ buffers' = [b \in DOMAIN buffers |->
                      IF \E i \in DOMAIN handlers : handlers[i] = b
                      THEN Append(buffers[b], [call |-> pip.n, line |-> pip.logged + 1])
                      ELSE buffers[b]]
    /\ pip' = [pip EXCEPT !.logged = @ + 1]
    /\ UNCHANGED <<handlers, lifecycleVars, keyVars, normVars>>

\* line 68: return results, log_buffer.getvalue()
PipReturn ==
    /\ pip.pc = "running"
    /\ pip' = [pip EXCEPT !.pc = "idle", !.ret = buffers[pip.log_buffer], !.retn = pip.n]
    /\ UNCHANGED <<handlers, buffers, lifecycleVars, keyVars, normVars>>

\* line 31: subprocess.Popen raises (no pip on the PATH): the call ends
\* without returning
PipRaise ==
    /\ pip.pc = "running"
    /\ pip' = [pip EXCEPT !.pc = "idle"]
    /\ UNCHANGED <<handlers, buffers, lifecycleVars, keyVars, normVars>>

\* the logger as a fresh interpreter has it, or with a handler some other
\* code of the notebook has put on it
InitPip ==
    /\ NoLifecycle
    /\ NoKeys
    /\ NoNorm
    /\ \/ handlers = <<>> /\ buffers = <<>>
       \/ handlers = <<1>> /\ buffers = << <<>> >>
    /\ pip = PipIdle

NextPip ==
    \/ PipCall
    \/ PipLog
    \/ PipReturn
    \/ PipRaise

SpecPip == InitPip /\ [][NextPip]_vars

-----------------------------------------------------------------------------
(* Properties *)

Done(p) == pc[p] = "done"

\* the record under the call's key when the call began, if it was a complete
\* record that is still unexpired now, and nothing else was loaded
HeldUnexpired(p) ==
    /\ eff[p].before.kind = "json"
    /\ now < eff[p].before.expiry
    /\ eff[p].seen.kind = "unread" \/ eff[p].seen = eff[p].before

NoNetwork(p) == eff[p].refreshes = 0 /\ eff[p].consents = 0

NoFileWrite(p) == eff[p].saves = 0 /\ eff[p].mkdirs = 0 /\ eff[p].chmods = 0

\* C1: a call that finds, under its key, an unexpired record whose scopes
\* cover the requested ones returns that record, with no refresh, no consent
\* flow and no write to the store.
C1_ValidRecordReuse ==
    \A p \in Procs :
        (Done(p) /\ HeldUnexpired(p) /\ loc[p].scopes \subseteq eff[p].before.scopes)
        => /\ res[p].outcome = "ok"
           /\ res[p].ret.token = eff[p].before.token
           /\ res[p].ret.expiry = eff[p].before.expiry
           /\ NoNetwork(p)
           /\ eff[p].saves = 0

\* C2: a call that finds an unexpired record whose scopes do not cover the
\* requested ones does not return it as it is: it refreshes or runs the
\* consent flow.
C2_ScopeShrinkageReissues ==
    \A p \in Procs :
        (/\ Done(p)
         /\ HeldUnexpired(p)
         /\ eff[p].seen = eff[p].before
         /\ ~(loc[p].scopes \subseteq eff[p].before.scopes))
        => ~NoNetwork(p)

\* C3: when the refresh of an expired record fails, the failure is not
\* raised to the caller; the call launches exactly one consent flow, and
\* what it returns and saves is the consent flow's record, not the record
\* whose refresh failed.
C3_RefreshFallback ==
    \A p \in Procs :
        (Done(p) /\ eff[p].refreshFailed)
        => /\ res[p].outcome # "RefreshError"
           /\ eff[p].consents = 1
           /\ res[p].outcome = "ok"
                => /\ res[p].ret.token # eff[p].seen.token
                   /\ eff[p].saves = 1

\* C4: two distinct (account, api, profile) triples never get the same
\* token file name.
C4_CacheKeyUnique ==
    (kout # <<>> /\ kin[1] # kin[2]) => kout[1] # kout[2]

\* C5: a token file always holds a complete record: never an empty or a
\* half-written one, whatever the point a writer has reached or crashed at.
C5_AtomicSave ==
    \A f \in DOMAIN files : files[f].data.kind = "json"

\* C6: a token file that holds token content is never readable by anyone
\* but its owner: its mode is 0600 from the moment the content is there.
C6_OwnerOnly ==
    \A f \in DOMAIN files : files[f].data.kind = "json" => files[f].mode = Mode0600

\* C7: a call that fails because the client secret file is missing has made
\* no network call (refresh, consent) and no file-system write (token file,
\* token directory, chmod).
C7_MissingSecretNoEffects ==
    \A p \in Procs :
        (Done(p) /\ res[p].outcome = "FileNotFoundError")
        => NoNetwork(p) /\ NoFileWrite(p)

UnknownProfile(p) ==
    /\ call[p].fn = "G"
    /\ ~(/\ call[p].api_name \in DOMAIN ScopeConfig
         /\ call[p].scope_profile \in DOMAIN ScopeConfig[call[p].api_name])

\* C8: a call of get_google_api_client for an (api, profile) pair the scope
\* table does not define has failed with ValueError at once: it is never
\* found past scope resolution, and it has not read the store, created the
\* token directory, refreshed or launched the consent flow.
C8_UnknownProfileFails ==
    \A p \in Procs :
        UnknownProfile(p)
        => /\ Done(p)
           /\ res[p].outcome = "ValueError"
           /\ eff[p].loads = 0
           /\ eff[p].seen.kind = "unread"
           /\ NoNetwork(p)
           /\ NoFileWrite(p)

C8_Witness ==
    \E p \in Procs :
        /\ UnknownProfile(p)
        /\ Done(p)
        /\ res[p].outcome = "ValueError"
        /\ ~tokenDir

\* C9: a call that finds a malformed token file does not raise the load
\* error; it goes on as if there were no file: no refresh, and the consent
\* flow (or the missing-secret error).
C9_CorruptIsCacheMiss ==
    \A p \in Procs :
        (Done(p) /\ eff[p].seen.kind \in {"empty", "torn"})
        => /\ res[p].outcome # "ValueError"
           /\ eff[p].refreshes = 0
           /\ eff[p].consents = 1 \/ res[p].outcome = "FileNotFoundError"

\* C10: one call makes at most one token-store write, at most one consent
\* flow launch and at most one refresh request.
C10_BoundedSideEffects ==
    \A p \in Procs :
        /\ eff[p].saves <= 1
        /\ eff[p].consents <= 1
        /\ eff[p].refreshes <= 1

C10_Witness ==
    \E p \in Procs :
        /\ Done(p)
        /\ res[p].outcome = "ok"
        /\ eff[p].saves = 1
        /\ eff[p].consents = 1
        /\ eff[p].refreshes = 1

Normalized == nout # <<>>

\* the rewriting the normalization is meant to be: character by character
RECURSIVE Rewritten(_)
Rewritten(x) ==
    IF x = <<>> THEN <<>>
    ELSE (CASE Head(x) = "@" -> <<"_", "a", "t", "_">>
            [] Head(x) = "." -> <<"_", "d", "o", "t", "_">>
            [] OTHER -> <<Head(x)>>) \o Rewritten(Tail(x))

Has(s, c) == \E i \in 1..Len(s) : s[i] = c

\* C11: normalizing twice gives what normalizing once gives; the result is
\* the input with every "@" rewritten to "_at_" and every "." to "_dot_"
\* (so "a@b.com" becomes "a_at_b_dot_com"); and the copy in youtube_auth.py
\* gives the same result as the copy in my_google_api_helpers.py.
C11_NormalizeIdempotent ==
    /\ normalize_account_id(<<"a", "@", "b", ".", "c", "o", "m">>)
           = <<"a", "_", "a", "t", "_", "b", "_", "d", "o", "t", "_", "c", "o", "m">>
    /\ Normalized
        => /\ nout.gg = nout.g
           /\ nout.g = Rewritten(nin)
           /\ ~Has(nout.g, "@") /\ ~Has(nout.g, ".")
           /\ nout.y = nout.g

C11_Witness ==
    /\ Normalized
    /\ Has(nin, "@") /\ Has(nin, ".") /\ Has(nin, "_")
    /\ Len(nout.g) > Len(nin)

\* C12: a normalized account never contains "__", the separator of the
\* fields of a cache key.
C12_NoSeparatorInNorm ==
    Normalized
    => ~\E i \in 1..(Len(nout.g) - 1) : nout.g[i] = "_" /\ nout.g[i + 1] = "_"

\* C13: a normalized account contains no path separator and is not a
\* reference to the parent directory, so its token file lies directly in
\* the token directory.
C13_PathSegmentSafe ==
    Normalized
    => /\ ~Has(nout.g, "/") /\ ~Has(nout.g, "\\")
       /\ ~Has(nout.y, "/") /\ ~Has(nout.y, "\\")
       /\ nout.g \notin {<<".">>, <<".", ".">>}

\* the arguments that make up the cache key of the call in slot p
Triple(p) == <<call[p].fn, call[p].account, call[p].api_name, call[p].scope_profile>>

\* the token file of the call in slot p
KeyOf(p) ==
    IF call[p].fn = "G"
    THEN TokenFileG(call[p].account, call[p].api_name, call[p].scope_profile)
    ELSE TokenFileY(call[p].account)

Failed(p) == Done(p) /\ res[p].outcome \notin {"ok", "none"}

\* C14: two calls for different (account, api, profile) triples never work
\* on the same token file, so neither reads or writes the other's record.
C14_KeysIndependent ==
    \A p, q \in Procs :
        (/\ loc[p].token_file # <<>>
         /\ loc[q].token_file # <<>>
         /\ Triple(p) # Triple(q))
        => loc[p].token_file # loc[q].token_file

C16_LastWriterWins ==
    \A p, q \in Procs :
        (/\ p # q
         /\ Done(p) /\ res[p].outcome = "ok" /\ eff[p].saves = 1 /\ ~eff[p].alone
         /\ Done(q) /\ res[q].outcome = "ok" /\ eff[q].saves = 1 /\ ~eff[q].alone
         /\ KeyOf(p) = KeyOf(q)
         /\ \/ eff[p].consents = 1 /\ eff[q].consents = 1
            \/ eff[p].consents = 0 /\ eff[q].consents = 0)
        => Content(KeyOf(p)) \in {to_json(res[p].ret), to_json(res[q].ret)}

\* C17: a call that ends in an error has not written to the token store,
\* and, when no other call overlapped it, the token file under its key is
\* what it was when the call began.
C17_FailureKeepsCache ==
    \A p \in Procs :
        Failed(p)
        => /\ eff[p].saves = 0
           /\ eff[p].chmods = 0
           /\ eff[p].alone => Content(KeyOf(p)) = eff[p].before

C17_Witness ==
    \E p \in Procs :
        /\ Failed(p)
        /\ eff[p].refreshFailed
        /\ eff[p].alone
        /\ eff[p].before.kind = "json"
        /\ Content(KeyOf(p)) = eff[p].before

\* C18: the missing-client-secret error is raised only on the path to the
\* consent flow: never by a call that holds an unexpired stored record, and
\* never by a call whose refresh succeeded.
C18_SecretOnlyForConsent ==
    \A p \in Procs :
        (Done(p) /\ res[p].outcome = "FileNotFoundError")
        => /\ ~(HeldUnexpired(p) /\ eff[p].before.token # 0)
           /\ ~(eff[p].refreshes = 1 /\ ~eff[p].refreshFailed)

\* C19: when a call that no other call overlapped returns, the token file
\* under its key holds the credential it returned: the same token, expiry
\* and refresh token, with scopes that cover the returned credential's.
C19_ReturnedIsStored ==
    \A p \in Procs :
        (Done(p) /\ res[p].outcome = "ok" /\ eff[p].alone)
        => /\ Content(KeyOf(p)).kind = "json"
           /\ Content(KeyOf(p)).token = res[p].ret.token
           /\ Content(KeyOf(p)).expiry = res[p].ret.expiry
           /\ Content(KeyOf(p)).refresh_token = res[p].ret.refresh_token
           /\ res[p].ret.scopes \subseteq Content(KeyOf(p)).scopes

\* C20: once run_pip_install_summary has been called, the logger has
\* exactly one handler, that of the most recent call's buffer; and the log
\* text a call returns holds only lines logged during that call.
C20_PipLoggerSafeReuse ==
    /\ pip.n >= 1 => handlers = <<pip.log_buffer>>
    /\ \A i \in DOMAIN pip.ret : pip.ret[i].call = pip.retn

C20_Witness ==
    /\ pip.pc = "idle"
    /\ pip.retn >= 2
    /\ Len(pip.ret) >= 1
    /\ \E b \in DOMAIN buffers :
           b # pip.log_buffer /\ \E i \in DOMAIN buffers[b] : buffers[b][i].call < pip.retn

====
